---- MODULE Spec2Model ----
(***************************************************************************)
(* mbux-sounddrive: the 2D driving simulation of main.py (class Vehicle    *)
(* and the frame loop of main) and the telemetry handler of OBDHandler.py. *)
(*                                                                         *)
(* The program computes with Python floats.  The model keeps every real    *)
(* quantity as an integer number of fixed resolution units and truncates   *)
(* every result toward zero:                                               *)
(*   lengths, positions, velocities   1/UnitsPerPixel   pixel              *)
(*   angles                           1/UnitsPerDegree  degree             *)
(*   cos, sin                         1/TrigUnits                          *)
(*   speeds in mph                    1/MphUnits        mph                *)
(*   engine speeds                    1/RpmUnits        rpm                *)
(*   volumes                          1/VolUnits                           *)
(*   gear factors                     1/FactorUnits                        *)
(* The resolutions are chosen so that every constant of the program is a   *)
(* whole number of units and so that no intermediate product leaves the    *)
(* 32-bit integers of the model checker.                                   *)
(***************************************************************************)
EXTENDS Integers, Sequences, FiniteSets, TLC

UnitsPerPixel == 4000
UnitsPerDegree == 2
TrigUnits == 10000
MphUnits == 300
RpmUnits == 12000
VolUnits == 10000
FactorUnits == 100

(***************************************************************************)
(* Constants of main.py, in resolution units.                              *)
(***************************************************************************)
SCREEN_WIDTH == 800 * UnitsPerPixel
SCREEN_HEIGHT == 600 * UnitsPerPixel

MAX_RPM_OUTPUT == 7000 * RpmUnits
MAX_SPEED_OUTPUT == 80 * MphUnits
MIN_RPM_OUTPUT == 0 * RpmUnits
IDLE_RPM_OUTPUT == 800 * RpmUnits

\* 6.0, 0.015, 0.025 pixels per tick; 3.5 degrees per tick; 0.003 per tick
VEHICLE_MAX_SPEED_PIXELS == 6 * UnitsPerPixel
VEHICLE_ACCELERATION_RATE == (15 * UnitsPerPixel) \div 1000
VEHICLE_BRAKING_DECELERATION == (25 * UnitsPerPixel) \div 1000
VEHICLE_TURN_SPEED_DEG == (35 * UnitsPerDegree) \div 10
VEHICLE_FRICTION_PER_MILLE == 3

GEAR_MAX == 5
GEAR_SPEED_RPM_FACTORS == <<290, 210, 160, 120, 95>>
ACCELERATION_FACTOR_PER_GEAR == <<170, 140, 110, 90, 75>>
UPSHIFT_RPM_THRESHOLDS ==
    <<5200 * RpmUnits, 5000 * RpmUnits, 4800 * RpmUnits, 4600 * RpmUnits,
      MAX_RPM_OUTPUT + 1 * RpmUnits>>
DOWNSHIFT_RPM_THRESHOLDS ==
    <<IDLE_RPM_OUTPUT - 1 * RpmUnits, 1800 * RpmUnits, 2000 * RpmUnits,
      2200 * RpmUnits, 2400 * RpmUnits>>
MIN_SPEED_FOR_GEAR_OPERATION ==
    <<0 * MphUnits, 10 * MphUnits, 22 * MphUnits, 35 * MphUnits, 50 * MphUnits>>
MIN_SPEED_FOR_UPSHIFT_FROM_GEAR ==
    <<8 * MphUnits, 18 * MphUnits, 30 * MphUnits, 45 * MphUnits,
      MAX_SPEED_OUTPUT + 1 * MphUnits>>

\* the literals of Vehicle._get_raw_rpm_for_logic and Vehicle.get_rpm
IDLE_SPEED_MPH == MphUnits \div 2
OVER_REV_RPM == 500 * RpmUnits
ACCEL_RPM_BONUS_MAX == 700
BRAKE_DIP_SPEED_MPH == 1 * MphUnits
\* the literal of Vehicle.update: below 0.01 pixel per tick braking stops the car
BRAKE_STOP_SPEED == UnitsPerPixel \div 100

\* the literals of OBDHandler.get_*_volume
HANDLER_RPM_RANGE == 7000 * RpmUnits
HANDLER_SPEED_RANGE == 70 * MphUnits

(***************************************************************************)
(* Arithmetic of the fixed-point representation.                           *)
(***************************************************************************)
Abs(a) == IF a < 0 THEN -a ELSE a

\* a / b truncated toward zero, for b > 0
TruncDiv(a, b) == IF a >= 0 THEN a \div b ELSE -((-a) \div b)

Min(a, b) == IF a < b THEN a ELSE b
Max(a, b) == IF a > b THEN a ELSE b

RECURSIVE SqrtSearch(_, _, _)
\* the largest r in lo..hi-1 with r*r <= n, given lo*lo <= n < hi*hi
SqrtSearch(n, lo, hi) ==
    IF hi - lo <= 1 THEN lo
    ELSE CHOOSE r \in
             { IF mid * mid <= n THEN SqrtSearch(n, mid, hi)
               ELSE SqrtSearch(n, lo, mid) : mid \in { (lo + hi) \div 2 } } : TRUE

FloorSqrt(n) == CHOOSE r \in { SqrtSearch(m, 0, 46341) : m \in {n} } : TRUE
CeilSqrt(n) == LET r == FloorSqrt(n) IN IF r * r = n THEN r ELSE r + 1

(***************************************************************************)
(* pygame.math.Vector2                                                     *)
(***************************************************************************)
Vec(a, b) == [x |-> a, y |-> b]
ZeroVec == Vec(0, 0)
VecAdd(v, w) == Vec(v.x + w.x, v.y + w.y)
VecSub(v, w) == Vec(v.x - w.x, v.y - w.y)
NormSq(v) == v.x * v.x + v.y * v.y
\* Vector2.length(), truncated to the resolution
Length(v) == FloorSqrt(NormSq(v))
\* length() > c and length() < c are decided exactly, on the squares
LengthGT(v, c) == NormSq(v) > c * c
LengthLT(v, c) == NormSq(v) < c * c
\* v.normalize() * k and v.scale_to_length(k): the vector of length k along
\* v, each component truncated toward zero, so never longer than k
ScaleTo(v, k) ==
    LET len == CeilSqrt(NormSq(v))
    IN  Vec(TruncDiv(v.x * k, len), TruncDiv(v.y * k, len))

(***************************************************************************)
(* math.cos and math.sin of an angle, by a table of the first quadrant in  *)
(* steps of half a degree.                                                 *)
(***************************************************************************)
CosTable == <<
    10000, 10000, 9998, 9997, 9994, 9990, 9986, 9981, 9976, 9969, 9962, 9954,
    9945, 9936, 9925, 9914, 9903, 9890, 9877, 9863, 9848, 9833, 9816, 9799,
    9781, 9763, 9744, 9724, 9703, 9681, 9659, 9636, 9613, 9588, 9563, 9537,
    9511, 9483, 9455, 9426, 9397, 9367, 9336, 9304, 9272, 9239, 9205, 9171,
    9135, 9100, 9063, 9026, 8988, 8949, 8910, 8870, 8829, 8788, 8746, 8704,
    8660, 8616, 8572, 8526, 8480, 8434, 8387, 8339, 8290, 8241, 8192, 8141,
    8090, 8039, 7986, 7934, 7880, 7826, 7771, 7716, 7660, 7604, 7547, 7490,
    7431, 7373, 7314, 7254, 7193, 7133, 7071, 7009, 6947, 6884, 6820, 6756,
    6691, 6626, 6561, 6494, 6428, 6361, 6293, 6225, 6157, 6088, 6018, 5948,
    5878, 5807, 5736, 5664, 5592, 5519, 5446, 5373, 5299, 5225, 5150, 5075,
    5000, 4924, 4848, 4772, 4695, 4617, 4540, 4462, 4384, 4305, 4226, 4147,
    4067, 3987, 3907, 3827, 3746, 3665, 3584, 3502, 3420, 3338, 3256, 3173,
    3090, 3007, 2924, 2840, 2756, 2672, 2588, 2504, 2419, 2334, 2250, 2164,
    2079, 1994, 1908, 1822, 1736, 1650, 1564, 1478, 1392, 1305, 1219, 1132,
    1045, 958, 872, 785, 698, 610, 523, 436, 349, 262, 175, 87,
    0 >>

FullTurn == 360 * UnitsPerDegree
QuarterTurn == 90 * UnitsPerDegree

Cos(a) ==
    LET r == a % FullTurn
    IN  IF r <= QuarterTurn THEN CosTable[r + 1]
        ELSE IF r <= 2 * QuarterTurn THEN -CosTable[2 * QuarterTurn - r + 1]
        ELSE IF r <= 3 * QuarterTurn THEN -CosTable[r - 2 * QuarterTurn + 1]
        ELSE CosTable[FullTurn - r + 1]

Sin(a) == Cos(a - QuarterTurn)

(***************************************************************************)
(* The state: the fields of the Vehicle main constructs, the fields of the *)
(* OBDHandler, and the number of frames the loop of main has run.          *)
(***************************************************************************)
VARIABLES position, velocity, angle, is_accelerating, is_braking,
          turn_direction, current_gear, simulate, speed, rpm, ticks,
          last_shift, speed_mph_param, raw_rpm_for_shifting,
          connection, responses

vars == <<position, velocity, angle, is_accelerating, is_braking,
          turn_direction, current_gear, simulate, speed, rpm, ticks,
          last_shift, speed_mph_param, raw_rpm_for_shifting,
          connection, responses>>

\* last_shift is a history variable: the gear after the last update minus the
\* gear before it, what the print lines of the two shift branches report
\* speed_mph_param and raw_rpm_for_shifting are the argument and the result
\* of the last call of _get_raw_rpm_for_logic by the shift logic, 0 before the
\* first call (a result is never below the idle RPM)
vehicle_vars == <<position, velocity, angle, current_gear, last_shift,
                  speed_mph_param, raw_rpm_for_shifting>>
control_vars == <<is_accelerating, is_braking, turn_direction>>
handler_vars == <<simulate, speed, rpm, connection, responses>>
\* connection is "None" while the handler has no obd.OBD object, and else what
\* its is_connected() answered last; responses is a history variable: what
\* the RPM and the speed query of the last hardware refresh (or of the
\* construction) met
link_vars == <<connection, responses>>

\* what a query can meet: the link down (no query sent), a null or empty
\* response, or a response with a value
NotConnected == [status |-> "not connected", value |-> 0]
NullResponse == [status |-> "null", value |-> 0]
Response(v) == [status |-> "value", value |-> v]
NoQueries == [rpm |-> NotConnected, speed |-> NotConnected]

\* the frames one behaviour of the model runs
MaxTicks == 2

(***************************************************************************)
(* Vehicle.update, step by step (dt = 1, the default main relies on).      *)
(***************************************************************************)
\* Handle Turning
Turn(a, dir) ==
    IF dir # 0 THEN (a + dir * VEHICLE_TURN_SPEED_DEG) % FullTurn ELSE a

\* Handle Acceleration: velocity += forward_vector * effective_accel_rate
Accelerate(v, a, accelerating, gear) ==
    LET effective_accel_rate ==
            IF accelerating
            THEN (VEHICLE_ACCELERATION_RATE * ACCELERATION_FACTOR_PER_GEAR[gear])
                 \div FactorUnits
            ELSE 0
    IN  VecAdd(v, Vec(TruncDiv(Cos(a) * effective_accel_rate, TrigUnits),
                      TruncDiv(Sin(a) * effective_accel_rate, TrigUnits)))

\* braking that always takes the full deceleration off
BrakeNoSnap(v, braking) ==
    IF ~braking THEN v
    ELSE IF LengthGT(v, BRAKE_STOP_SPEED)
         THEN VecSub(v, ScaleTo(v, VEHICLE_BRAKING_DECELERATION))
         ELSE ZeroVec

\* Handle Braking
Brake(v, braking) ==
    IF ~braking THEN v
    ELSE IF LengthGT(v, BRAKE_STOP_SPEED)
         THEN IF LengthLT(v, VEHICLE_BRAKING_DECELERATION) THEN ZeroVec
              ELSE VecSub(v, ScaleTo(v, VEHICLE_BRAKING_DECELERATION))
         ELSE ZeroVec

\* Friction with the friction force added instead of subtracted
FrictionAdded(v, accelerating) ==
    IF ~accelerating /\ NormSq(v) > 0
    THEN VecAdd(v, ScaleTo(v, (Length(v) * VEHICLE_FRICTION_PER_MILLE) \div 1000))
    ELSE v

\* Apply Friction
Friction(v, accelerating) ==
    IF ~accelerating /\ NormSq(v) > 0
    THEN LET friction_force == (Length(v) * VEHICLE_FRICTION_PER_MILLE) \div 1000
         IN  IF Length(v) < friction_force THEN ZeroVec
             ELSE VecSub(v, ScaleTo(v, friction_force))
    ELSE v

\* no speed cap
SpeedCapMissing(v) == v

\* the speed cap: scale_to_length(VEHICLE_MAX_SPEED_PIXELS)
SpeedCap(v) ==
    IF LengthGT(v, VEHICLE_MAX_SPEED_PIXELS)
    THEN ScaleTo(v, VEHICLE_MAX_SPEED_PIXELS)
    ELSE v

\* the physics of one update with the brake read only when the throttle is
\* released
IntegrateBrakeOrThrottle(v, a, accelerating, braking, gear) ==
    CHOOSE capped \in
        { SpeedCap(slowed) : slowed \in
            { Friction(braked, accelerating) : braked \in
                { Brake(pushed, braking /\ ~accelerating) : pushed \in
                    { Accelerate(v, a, accelerating, gear) } } } } : TRUE

\* the velocity after the physics of one update: self.velocity is assigned
\* by each step in turn, and the next step reads the value assigned
Integrate(v, a, accelerating, braking, gear) ==
    CHOOSE capped \in
        { SpeedCap(slowed) : slowed \in
            { Friction(braked, accelerating) : braked \in
                { Brake(pushed, braking) : pushed \in
                    { Accelerate(v, a, accelerating, gear) } } } } : TRUE

\* Screen Wrap of one coordinate
ScreenWrap(p, limit) ==
    IF p > limit THEN 0
    ELSE IF p < 0 THEN limit
    ELSE p

Move(p, v) ==
    Vec(ScreenWrap(p.x + v.x, SCREEN_WIDTH), ScreenWrap(p.y + v.y, SCREEN_HEIGHT))

get_speed_mph(v) == (Length(v) * MAX_SPEED_OUTPUT) \div VEHICLE_MAX_SPEED_PIXELS

\* rpm per unit of speed_mph * gear_factor:
\* (MAX_RPM_OUTPUT - IDLE_RPM_OUTPUT) / MAX_SPEED_OUTPUT
RpmPerSpeedFactor ==
    (MAX_RPM_OUTPUT - IDLE_RPM_OUTPUT) \div (MAX_SPEED_OUTPUT * FactorUnits)

\* the raw RPM clamped hard at MAX_RPM_OUTPUT
get_raw_rpm_hard_clamp(gear, current_speed_mph) ==
    IF current_speed_mph < IDLE_SPEED_MPH THEN IDLE_RPM_OUTPUT
    ELSE Min(Max(IDLE_RPM_OUTPUT
                   + current_speed_mph * GEAR_SPEED_RPM_FACTORS[gear] * RpmPerSpeedFactor,
                 MIN_RPM_OUTPUT),
             MAX_RPM_OUTPUT)

get_raw_rpm_for_logic(gear, current_speed_mph) ==
    IF current_speed_mph < IDLE_SPEED_MPH THEN IDLE_RPM_OUTPUT
    ELSE LET gear_factor == GEAR_SPEED_RPM_FACTORS[gear]
             raw == IDLE_RPM_OUTPUT
                    + current_speed_mph * gear_factor * RpmPerSpeedFactor
         IN  Min(Max(raw, MIN_RPM_OUTPUT), MAX_RPM_OUTPUT + OVER_REV_RPM)

\* the condition of the Upshifting branch
\* the upshift with the minimum speed read one gear too far up the table
UpshiftDueNextGearSpeed(gear, current_speed_mph) ==
    /\ gear < GEAR_MAX
    /\ get_raw_rpm_for_logic(gear, current_speed_mph) > UPSHIFT_RPM_THRESHOLDS[gear]
    /\ current_speed_mph > MIN_SPEED_FOR_UPSHIFT_FROM_GEAR[gear + 1]

UpshiftDue(gear, current_speed_mph) ==
    /\ gear < GEAR_MAX
    /\ get_raw_rpm_for_logic(gear, current_speed_mph) > UPSHIFT_RPM_THRESHOLDS[gear]
    /\ current_speed_mph > MIN_SPEED_FOR_UPSHIFT_FROM_GEAR[gear]

\* the condition of the Downshifting branch, reached when no upshift is due
DownshiftDue(gear, current_speed_mph) ==
    /\ gear > 1
    /\ LET rpm_too_low_for_current_gear ==
               get_raw_rpm_for_logic(gear, current_speed_mph)
                   < DOWNSHIFT_RPM_THRESHOLDS[gear]
           speed_ok_for_target_lower_gear ==
               current_speed_mph >= MIN_SPEED_FOR_GEAR_OPERATION[gear - 1]
       IN  rpm_too_low_for_current_gear /\ speed_ok_for_target_lower_gear

\* ShiftGear that also drops straight to first gear once the car idles
ShiftGearResetAtIdle(gear, current_speed_mph) ==
    IF current_speed_mph < IDLE_SPEED_MPH THEN 1
    ELSE IF UpshiftDue(gear, current_speed_mph) THEN gear + 1
    ELSE IF DownshiftDue(gear, current_speed_mph) THEN gear - 1
    ELSE gear

\* ShiftGear upshifting on either condition instead of both
ShiftGearEitherCondition(gear, current_speed_mph) ==
    IF /\ gear < GEAR_MAX
       /\ \/ get_raw_rpm_for_logic(gear, current_speed_mph)
                 > UPSHIFT_RPM_THRESHOLDS[gear]
          \/ current_speed_mph > MIN_SPEED_FOR_UPSHIFT_FROM_GEAR[gear]
    THEN gear + 1
    ELSE IF DownshiftDue(gear, current_speed_mph) THEN gear - 1
    ELSE gear

\* Automatic Gear Shifting: the gear after the update
\* the downshift read from the upshift table of the gear below
ShiftGearOneThreshold(gear, current_speed_mph) ==
    IF UpshiftDue(gear, current_speed_mph) THEN gear + 1
    ELSE IF /\ gear > 1
            /\ get_raw_rpm_for_logic(gear, current_speed_mph)
                  < UPSHIFT_RPM_THRESHOLDS[gear - 1]
            /\ current_speed_mph >= MIN_SPEED_FOR_GEAR_OPERATION[gear - 1]
         THEN gear - 1
    ELSE gear

ShiftGearCurrentGearSpeed(gear, current_speed_mph) ==
    IF UpshiftDue(gear, current_speed_mph) THEN gear + 1
    ELSE IF /\ gear > 1
            /\ get_raw_rpm_for_logic(gear, current_speed_mph)
                  < DOWNSHIFT_RPM_THRESHOLDS[gear]
            /\ current_speed_mph >= MIN_SPEED_FOR_GEAR_OPERATION[gear]
         THEN gear - 1
    ELSE gear

ShiftGear(gear, current_speed_mph) ==
    IF UpshiftDue(gear, current_speed_mph) THEN gear + 1
    ELSE IF DownshiftDue(gear, current_speed_mph) THEN gear - 1
    ELSE gear

\* Vehicle.get_rpm up to its final clamping: the raw RPM with the
\* acceleration flare and the braking dip, clamped for output
final_rpm(gear, v, accelerating, braking) ==
    LET current_speed_mph == get_speed_mph(v)
        base == get_raw_rpm_for_logic(gear, current_speed_mph)
        rpm_headroom_factor ==
            Max(0, MAX_RPM_OUTPUT - base)
            \div ((MAX_RPM_OUTPUT - IDLE_RPM_OUTPUT + 1 * RpmUnits) \div RpmUnits)
        bonus ==
            (ACCEL_RPM_BONUS_MAX * rpm_headroom_factor
             * ACCELERATION_FACTOR_PER_GEAR[gear]) \div FactorUnits
        flared ==
            IF /\ accelerating
               /\ current_speed_mph < (MAX_SPEED_OUTPUT * 98) \div 100
               /\ base < MAX_RPM_OUTPUT
            THEN base + bonus
            ELSE base
        dipped ==
            IF braking /\ current_speed_mph > BRAKE_DIP_SPEED_MPH
            THEN Max((IDLE_RPM_OUTPUT * 85) \div 100, (flared \div 100) * 92)
            ELSE flared
    IN  Min(Max(dipped, MIN_RPM_OUTPUT), MAX_RPM_OUTPUT)

\* get_rpm with the idle override assigning MIN_RPM_OUTPUT
get_rpm_idle_as_min(gear, v, accelerating, braking) ==
    IF get_speed_mph(v) < IDLE_SPEED_MPH /\ ~accelerating
    THEN MIN_RPM_OUTPUT
    ELSE final_rpm(gear, v, accelerating, braking)

\* Vehicle.get_rpm: the RPM handed to the OBDHandler
get_rpm(gear, v, accelerating, braking) ==
    IF get_speed_mph(v) < IDLE_SPEED_MPH /\ ~accelerating
    THEN IDLE_RPM_OUTPUT
    ELSE final_rpm(gear, v, accelerating, braking)

(***************************************************************************)
(* OBDHandler: the volumes from the speed and rpm it holds.                *)
(***************************************************************************)
get_bass_volume(current_rpm) ==
    LET bass_percent == current_rpm \div (HANDLER_RPM_RANGE \div VolUnits)
    IN  Min(bass_percent + VolUnits \div 2, VolUnits)

\* get_drums_volume without the max(..., 0)
get_drums_volume_no_floor(current_speed) ==
    Min(((current_speed * VolUnits) \div HANDLER_SPEED_RANGE) * 7 - VolUnits, VolUnits)

get_drums_volume(current_speed) ==
    LET drums_percent == (current_speed * VolUnits) \div HANDLER_SPEED_RANGE
    IN  Max(Min(drums_percent * 7 - VolUnits, VolUnits), 0)

get_other_volume(current_speed) ==
    LET other_percent == (current_speed * VolUnits) \div HANDLER_SPEED_RANGE
    IN  Max(Min(other_percent * 7 - (25 * VolUnits) \div 10, VolUnits), 0)

get_vocals_volume_early(current_speed) ==
    LET vocals_percent == (current_speed * VolUnits) \div HANDLER_SPEED_RANGE
    IN  Max(Min(vocals_percent * 7 - VolUnits \div 2, VolUnits), 0)

get_vocals_volume(current_speed) ==
    LET vocals_percent == (current_speed * VolUnits) \div HANDLER_SPEED_RANGE
    IN  Max(Min(vocals_percent * 7 - 4 * VolUnits, VolUnits), 0)

get_volumes(current_speed, current_rpm) ==
    << get_bass_volume(current_rpm), get_drums_volume(current_speed),
       get_other_volume(current_speed), get_vocals_volume(current_speed) >>

(***************************************************************************)
(* The states a run starts in.  The first is the state main constructs:    *)
(* Vehicle(SCREEN_WIDTH // 2, SCREEN_HEIGHT // 2, angle=-90), the handler  *)
(* in simulation mode holding speed 0 and rpm 0.  The others are states of *)
(* a drive in progress, as the frame loop leaves them: a pose (where the   *)
(* car is, where it points, where it moves), a speed, and a gear in which  *)
(* no shift is pending at that speed; the handler holds the telemetry of   *)
(* the frame before.                                                       *)
(***************************************************************************)
Degrees(d) == d * UnitsPerDegree
Pixels(n, thousandths) == n * UnitsPerPixel + (thousandths * UnitsPerPixel) \div 1000

Constructed ==
    [position |-> Vec(SCREEN_WIDTH \div 2, SCREEN_HEIGHT \div 2),
     velocity |-> ZeroVec, angle |-> Degrees(-90), gear |-> 1]

\* speeds in 1/MphUnits mph, which is also 1/UnitsPerPixel pixel per tick:
\* at rest, around the idle speed, one tick before 5, 10 and 15 mph, around
\* the shift points of each gear, and at top speed
ShiftSpeeds ==
    {0, 140, 160, 1504, 1850, 2898, 4513, 5778, 7700, 9650, 13460, 24000}
\* just under one pixel per tick, and top speed
EdgeSpeeds == {3898, 24000}
EdgeGears == {1, GEAR_MAX}

\* a pose: position, heading (angle) and course (the direction of motion)
Pose(px, py, a, c) == [position |-> Vec(px, py), angle |-> a, course |-> c]

\* the car has never turned: it points and moves along -90 degrees
StraightPoses ==
    { Pose(SCREEN_WIDTH \div 2, SCREEN_HEIGHT \div 2, Degrees(-90), Degrees(-90)) }
EdgePoses ==
    { Pose(SCREEN_WIDTH \div 2, Pixels(0, 50), Degrees(-90), Degrees(-90)),
      Pose(SCREEN_WIDTH \div 2, SCREEN_HEIGHT - Pixels(0, 100), Degrees(90), Degrees(90)),
      Pose(SCREEN_WIDTH - Pixels(0, 100), SCREEN_HEIGHT \div 2, Degrees(0), Degrees(0)),
      Pose(Pixels(0, 50), SCREEN_HEIGHT \div 2, Degrees(180), Degrees(180)),
      \* turned against its motion, and across it
      Pose(SCREEN_WIDTH \div 4, SCREEN_HEIGHT \div 4, Degrees(180), Degrees(0)),
      Pose(SCREEN_WIDTH \div 4, SCREEN_HEIGHT \div 4, 91, Degrees(0)) }

Along(c, s) == Vec(TruncDiv(Cos(c) * s, TrigUnits), TruncDiv(Sin(c) * s, TrigUnits))

Driving(poses, speeds, gears) ==
    { [position |-> t[1].position, velocity |-> Along(t[1].course, t[2]),
       angle |-> t[1].angle, gear |-> t[3]] :
          t \in { u \in poses \X speeds \X gears :
                     LET mph == get_speed_mph(Along(u[1].course, u[2]))
                     IN  ~UpshiftDue(u[3], mph) /\ ~DownshiftDue(u[3], mph) } }

InitVehicles ==
    {Constructed} \cup Driving(StraightPoses, ShiftSpeeds, 1..GEAR_MAX)
                  \cup Driving(EdgePoses, EdgeSpeeds, EdgeGears)

Init ==
    /\ \E s \in InitVehicles :
          /\ position = s.position
          /\ velocity = s.velocity
          /\ angle = s.angle
          /\ current_gear = s.gear
          /\ IF s = Constructed
             THEN /\ speed = 0 /\ rpm = 0
                  /\ speed_mph_param = 0 /\ raw_rpm_for_shifting = 0
             ELSE /\ speed = get_speed_mph(s.velocity)
                  /\ rpm = get_rpm(s.gear, s.velocity, FALSE, FALSE)
                  /\ speed_mph_param = get_speed_mph(s.velocity)
                  /\ raw_rpm_for_shifting =
                        get_raw_rpm_for_logic(s.gear, get_speed_mph(s.velocity))
    /\ is_accelerating = FALSE
    /\ is_braking = FALSE
    /\ turn_direction = 0
    /\ simulate = TRUE
    /\ connection = "None"
    /\ responses = NoQueries
    /\ ticks = 0
    /\ last_shift = 0

(***************************************************************************)
(* The event loop of main (simulation mode): one key event.                *)
(***************************************************************************)
Keys == {"K_UP", "K_DOWN", "K_LEFT", "K_RIGHT"}

KeyDown(key) ==
    /\ simulate
    /\ is_accelerating' = IF key = "K_UP" THEN TRUE ELSE is_accelerating
    /\ is_braking' = IF key = "K_DOWN" THEN TRUE ELSE is_braking
    /\ turn_direction' = IF key = "K_LEFT" THEN -1
                         ELSE IF key = "K_RIGHT" THEN 1
                         ELSE turn_direction
    /\ UNCHANGED <<vehicle_vars, handler_vars, ticks>>

KeyUp(key) ==
    /\ simulate
    /\ is_accelerating' = IF key = "K_UP" THEN FALSE ELSE is_accelerating
    /\ is_braking' = IF key = "K_DOWN" THEN FALSE ELSE is_braking
    /\ turn_direction' = IF key = "K_LEFT" /\ turn_direction = -1 THEN 0
                         ELSE IF key = "K_RIGHT" /\ turn_direction = 1 THEN 0
                         ELSE turn_direction
    /\ UNCHANGED <<vehicle_vars, handler_vars, ticks>>

(***************************************************************************)
(* One frame in simulation mode: all_sprites.update(), that is             *)
(* Vehicle.update(), then handler.refresh(sim_speed, sim_rpm).             *)
(***************************************************************************)
Frame ==
    \E a \in { Turn(angle, turn_direction) } :
    \E v \in { Integrate(velocity, a, is_accelerating, is_braking, current_gear) } :
    \E g \in { ShiftGear(current_gear, get_speed_mph(v)) } :
        /\ angle' = a
        /\ velocity' = v
        /\ position' = Move(position, v)
        /\ current_gear' = g
        /\ last_shift' = g - current_gear
        /\ speed_mph_param' = get_speed_mph(v)
        /\ raw_rpm_for_shifting' = get_raw_rpm_for_logic(current_gear, get_speed_mph(v))
        /\ speed' = get_speed_mph(v)
        /\ rpm' = get_rpm(g, v, is_accelerating, is_braking)

Tick ==
    /\ simulate
    /\ ticks < MaxTicks
    /\ Frame
    /\ ticks' = ticks + 1
    /\ UNCHANGED <<control_vars, simulate, link_vars>>

Next ==
    \/ \E key \in Keys : KeyDown(key)
    \/ \E key \in Keys : KeyUp(key)
    \/ Tick

Spec == Init /\ [][Next]_vars

(***************************************************************************)
(* Long drives.  The keys are pressed before the first frame and then held *)
(* (the event loop finds no event), and the frame loop of main runs for as *)
(* long as the program does, so a frame that can run does run.  The frames *)
(* are not counted here.  The drives: full throttle from the constructed   *)
(* state, the brake held from a drive in progress or from the constructed  *)
(* state, and no key in the constructed state.                             *)
(***************************************************************************)
HeldPoses ==
    StraightPoses \cup
        { Pose(SCREEN_WIDTH \div 4, SCREEN_HEIGHT \div 4, Degrees(30), Degrees(30)) }

\* the only vehicle at rest a long drive starts from is the constructed one
HeldVehicles ==
    {Constructed} \cup Driving(HeldPoses, ShiftSpeeds \ {0}, 1..GEAR_MAX)

HeldInit ==
    /\ \E s \in HeldVehicles :
          /\ position = s.position
          /\ velocity = s.velocity
          /\ angle = s.angle
          /\ current_gear = s.gear
          /\ IF s = Constructed
             THEN /\ speed = 0 /\ rpm = 0
                  /\ speed_mph_param = 0 /\ raw_rpm_for_shifting = 0
             ELSE /\ speed = get_speed_mph(s.velocity)
                  /\ rpm = get_rpm(s.gear, s.velocity, FALSE, FALSE)
                  /\ speed_mph_param = get_speed_mph(s.velocity)
                  /\ raw_rpm_for_shifting =
                        get_raw_rpm_for_logic(s.gear, get_speed_mph(s.velocity))
          /\ \/ is_accelerating = TRUE /\ is_braking = FALSE /\ s = Constructed
             \/ is_accelerating = FALSE /\ is_braking = TRUE
             \/ is_accelerating = FALSE /\ is_braking = FALSE /\ s = Constructed
    /\ turn_direction = 0
    /\ simulate = TRUE
    /\ connection = "None"
    /\ responses = NoQueries
    /\ ticks = 0
    /\ last_shift = 0

HeldFrame ==
    /\ simulate
    /\ Frame
    /\ UNCHANGED <<control_vars, simulate, link_vars, ticks>>

HeldNext == HeldFrame

HeldSpec == HeldInit /\ [][HeldNext]_vars /\ WF_vars(HeldFrame)

(***************************************************************************)
(* Vehicle._get_raw_rpm_for_logic(speed_mph_param) as a function: one call *)
(* on a vehicle in any gear with any speed from 0 to MAX_SPEED_OUTPUT in   *)
(* steps of half a mph, which includes the idle speed itself.              *)
(***************************************************************************)
ParamSpeeds == { k * IDLE_SPEED_MPH : k \in 0..(MAX_SPEED_OUTPUT \div IDLE_SPEED_MPH) }

RawRpmInit ==
    /\ current_gear \in 1..GEAR_MAX
    /\ speed_mph_param \in ParamSpeeds
    /\ raw_rpm_for_shifting = 0
    /\ position = Constructed.position
    /\ velocity = Constructed.velocity
    /\ angle = Constructed.angle
    /\ speed = 0 /\ rpm = 0
    /\ is_accelerating = FALSE
    /\ is_braking = FALSE
    /\ turn_direction = 0
    /\ simulate = TRUE
    /\ connection = "None"
    /\ responses = NoQueries
    /\ ticks = 0
    /\ last_shift = 0

RawRpmCall ==
    /\ raw_rpm_for_shifting = 0
    /\ raw_rpm_for_shifting' = get_raw_rpm_for_logic(current_gear, speed_mph_param)
    /\ UNCHANGED <<position, velocity, angle, current_gear, last_shift,
                   speed_mph_param, control_vars, handler_vars, ticks>>

RawRpmNext == RawRpmCall

RawRpmSpec == RawRpmInit /\ [][RawRpmNext]_vars

(***************************************************************************)
(* The handler as a function of the telemetry: refresh(sim_speed, sim_rpm) *)
(* in simulation mode with any speed from 0 to MAX_SPEED_OUTPUT in steps   *)
(* of half a mph and a few RPM values, then get_volumes().                 *)
(***************************************************************************)
ParamRpms == { MIN_RPM_OUTPUT, IDLE_RPM_OUTPUT, MAX_RPM_OUTPUT \div 2, MAX_RPM_OUTPUT }

MapperInit ==
    /\ simulate = TRUE
    /\ connection = "None"
    /\ responses = NoQueries
    /\ speed = 0 /\ rpm = 0
    /\ position = Constructed.position
    /\ velocity = Constructed.velocity
    /\ angle = Constructed.angle
    /\ current_gear = Constructed.gear
    /\ speed_mph_param = 0 /\ raw_rpm_for_shifting = 0
    /\ is_accelerating = FALSE
    /\ is_braking = FALSE
    /\ turn_direction = 0
    /\ ticks = 0
    /\ last_shift = 0

refresh(sim_speed, sim_rpm) ==
    /\ simulate
    /\ speed' = sim_speed
    /\ rpm' = sim_rpm
    /\ UNCHANGED <<vehicle_vars, control_vars, simulate, link_vars, ticks>>

MapperNext == \E sim_speed \in ParamSpeeds : \E sim_rpm \in ParamRpms :
                  refresh(sim_speed, sim_rpm)

MapperSpec == MapperInit /\ [][MapperNext]_vars

(***************************************************************************)
(* Hardware mode: main answered "no", so OBDHandler(simulate=False, port). *)
(* What the OBD link does is the environment's choice: whether obd.OBD     *)
(* raises or connects, what is_connected() answers at each call, and what  *)
(* each query returns.  A speed response carries whole km/h, an RPM        *)
(* response revolutions per minute.                                        *)
(***************************************************************************)
SpeedResponses == {NullResponse} \cup { Response(kph) : kph \in {0, 50, 120} }
RpmResponses == {NullResponse} \cup { Response(r * RpmUnits) : r \in {800, 3000} }

\* response.value.to("mph").magnitude, for a value in km/h
to_mph(kph) == (kph * ((MphUnits * 621371) \div 100)) \div 10000

\* a failed speed query answering 0
query_speed_zero_on_failure(stored, is_connected, response) ==
    IF is_connected /\ response.status = "value" THEN to_mph(response.value)
    ELSE 0

query_speed(stored, is_connected, response) ==
    IF is_connected
    THEN IF response.status = "value" THEN to_mph(response.value)
         ELSE stored
    ELSE stored

query_rpm(stored, is_connected, response) ==
    IF is_connected
    THEN IF response.status = "value" THEN response.value
         ELSE stored
    ELSE stored

\* what a query met, for the record
Met(is_connected, response) == IF is_connected THEN response ELSE NotConnected

HardwareInit ==
    /\ position = Constructed.position
    /\ velocity = Constructed.velocity
    /\ angle = Constructed.angle
    /\ current_gear = Constructed.gear
    /\ speed_mph_param = 0 /\ raw_rpm_for_shifting = 0
    /\ is_accelerating = FALSE
    /\ is_braking = FALSE
    /\ turn_direction = 0
    /\ ticks = 0
    /\ last_shift = 0
    /\ \/ \* obd.OBD raised, or the connection is not connected
          /\ simulate = TRUE
          /\ connection = "None"
          /\ speed = 0 /\ rpm = 0
          /\ responses = NoQueries
       \/ \* connected: the first values are queried
          \E at_rpm \in BOOLEAN, at_speed \in BOOLEAN :
          \E rpm_response \in RpmResponses, speed_response \in SpeedResponses :
              /\ simulate = FALSE
              /\ rpm = query_rpm(0, at_rpm, rpm_response)
              /\ speed = query_speed(0, at_speed, speed_response)
              /\ responses = [rpm |-> Met(at_rpm, rpm_response),
                              speed |-> Met(at_speed, speed_response)]
              /\ connection = IF at_speed THEN "connected" ELSE "disconnected"

\* handler.refresh() with no arguments, in hardware mode
HardwareRefresh ==
    /\ ~simulate
    /\ \E at_refresh \in BOOLEAN, at_rpm \in BOOLEAN, at_speed \in BOOLEAN :
       \E rpm_response \in RpmResponses, speed_response \in SpeedResponses :
          IF connection # "None" /\ at_refresh
          THEN /\ rpm' = query_rpm(rpm, at_rpm, rpm_response)
               /\ speed' = query_speed(speed, at_speed, speed_response)
               /\ responses' = [rpm |-> Met(at_rpm, rpm_response),
                                speed |-> Met(at_speed, speed_response)]
               /\ connection' = IF at_speed THEN "connected" ELSE "disconnected"
          ELSE \* speed and rpm are never None: both stay
               /\ rpm' = rpm
               /\ speed' = speed
               /\ responses' = NoQueries
               /\ connection' = IF connection = "None" THEN "None" ELSE "disconnected"
    /\ UNCHANGED <<vehicle_vars, control_vars, simulate, ticks>>

HardwareNext ==
    \/ \E key \in Keys : KeyDown(key)
    \/ \E key \in Keys : KeyUp(key)
    \/ Tick
    \/ HardwareRefresh

HardwareSpec == HardwareInit /\ [][HardwareNext]_vars

(***************************************************************************)
(* Properties.                                                             *)
(***************************************************************************)
\* a step that is one frame of the loop
TickStep == ticks' = ticks + 1

Sgn(a) == IF a > 0 THEN 1 ELSE IF a < 0 THEN -1 ELSE 0

\* C1  Gear bound: in every reachable state 1 <= gear <= GEAR_MAX, and no
\* step changes the gear by more than one.
C1_GearBound ==
    /\ [](current_gear \in 1..GEAR_MAX)
    /\ [][Abs(current_gear' - current_gear) <= 1]_vars

\* an update has shifted up into the top gear, and one has shifted down
C1_Witness ==
    /\ ticks > 0
    /\ \/ last_shift = 1 /\ current_gear = GEAR_MAX
       \/ last_shift = -1 /\ current_gear = 1

\* C2  Speed bound: in every reachable state |velocity| <= VMAX, and the
\* speed the vehicle reports lies in [0, SPEED_MAX].
C2_SpeedBound ==
    /\ NormSq(velocity) <= VEHICLE_MAX_SPEED_PIXELS * VEHICLE_MAX_SPEED_PIXELS
    /\ get_speed_mph(velocity) \in 0..MAX_SPEED_OUTPUT
    /\ speed \in 0..MAX_SPEED_OUTPUT

\* an update that accelerated in top gear has left the car at exactly VMAX
C2_Witness ==
    /\ ticks > 0
    /\ is_accelerating
    /\ current_gear = GEAR_MAX
    /\ NormSq(velocity) = VEHICLE_MAX_SPEED_PIXELS * VEHICLE_MAX_SPEED_PIXELS
    /\ speed = MAX_SPEED_OUTPUT

\* the gear the last update started in
GearBefore == current_gear - last_shift

\* C3 as stated: an update whose shift logic sees gear 1 and speed_mph = 10
\* leaves gear 2.
C3_UpshiftAtTen ==
    (ticks > 0 /\ GearBefore = 1 /\ speed = 10 * MphUnits) => current_gear = 2

\* C3 amended: at gear 1 and speed_mph = 10 the raw RPM is 3047.5, below the
\* upshift threshold 5200, and the update leaves gear 1; at gear 1 and
\* speed_mph = 19.6 the raw RPM is 5205.1, above 5200, and the update leaves
\* gear 2.
C3_UpshiftNearTwenty ==
    (ticks > 0 /\ GearBefore = 1) =>
        /\ speed = 10 * MphUnits =>
              /\ 2 * get_raw_rpm_for_logic(1, speed) = 6095 * RpmUnits
              /\ get_raw_rpm_for_logic(1, speed) < UPSHIFT_RPM_THRESHOLDS[1]
              /\ current_gear = 1
        /\ speed = (196 * MphUnits) \div 10 =>
              /\ 10 * get_raw_rpm_for_logic(1, speed) = 52051 * RpmUnits
              /\ get_raw_rpm_for_logic(1, speed) > UPSHIFT_RPM_THRESHOLDS[1]
              /\ current_gear = 2

C3_Witness ==
    /\ ticks > 0
    /\ GearBefore = 1
    /\ current_gear = 1
    /\ speed = 10 * MphUnits

\* C4 as stated: an update whose shift logic sees gear 3 leaves gear 2 at
\* speed_mph = 15 and gear 3 at speed_mph = 5.
C4_DownshiftAtFifteen ==
    (ticks > 0 /\ GearBefore = 3) =>
        /\ speed = 15 * MphUnits => current_gear = 2
        /\ speed = 5 * MphUnits => current_gear = 3

\* C5 as stated: position.x in [0, W) and position.y in [0, H).
C5_PositionHalfOpen ==
    /\ position.x >= 0 /\ position.x < SCREEN_WIDTH
    /\ position.y >= 0 /\ position.y < SCREEN_HEIGHT

\* C6 as stated: an update that moves a coordinate past a boundary leaves it
\* at the overshoot beyond the opposite boundary.
C6_WrapKeepsOvershoot ==
    [][TickStep =>
          LET nx == position.x + velocity'.x
              ny == position.y + velocity'.y
          IN  /\ nx > SCREEN_WIDTH => position'.x = nx - SCREEN_WIDTH
              /\ nx < 0 => position'.x = nx + SCREEN_WIDTH
              /\ ny > SCREEN_HEIGHT => position'.y = ny - SCREEN_HEIGHT
              /\ ny < 0 => position'.y = ny + SCREEN_HEIGHT]_vars

\* C7 as stated: heading in [0, 360) in every reachable state.
C7_HeadingNormalised == angle >= 0 /\ angle < FullTurn

\* C8  Idle invariant: at a speed below 0.5 mph get_rpm without acceleration
\* is IDLE_RPM exactly, in every gear, braking or not.
C8_IdleRpm ==
    get_speed_mph(velocity) < IDLE_SPEED_MPH =>
        /\ \A g \in 1..GEAR_MAX, b \in BOOLEAN :
              get_rpm(g, velocity, FALSE, b) = IDLE_RPM_OUTPUT
        /\ ~is_accelerating =>
              get_rpm(current_gear, velocity, is_accelerating, is_braking)
                  = IDLE_RPM_OUTPUT

\* a frame has left the car crawling in a high gear with the brake held
C8_Witness ==
    /\ ticks > 0
    /\ velocity # ZeroVec
    /\ get_speed_mph(velocity) < IDLE_SPEED_MPH
    /\ is_braking /\ ~is_accelerating
    /\ current_gear >= 3
    /\ rpm = IDLE_RPM_OUTPUT

\* the speed (a quarter pixel per tick) from which the friction of one tick
\* is at least one resolution unit
FrictionResolved == UnitsPerPixel \div 4

C10_VolumeBounds ==
    /\ speed \in 0..MAX_SPEED_OUTPUT
    /\ rpm \in 0..MAX_RPM_OUTPUT
    /\ \A i \in 1..4 : get_volumes(speed, rpm)[i] \in 0..VolUnits

\* the handler holds a frame's telemetry for which the drums are partly up,
\* the vocals off and the bass above its floor
C10_Witness ==
    /\ ticks > 0
    /\ get_volumes(speed, rpm)[1] > VolUnits \div 2
    /\ get_volumes(speed, rpm)[2] > 0
    /\ get_volumes(speed, rpm)[2] < VolUnits
    /\ get_volumes(speed, rpm)[4] = 0

\* C11: at the speed the handler holds, drums >= other >= vocals, and each of
\* the three volumes is non-decreasing in speed: a refresh to a speed at
\* least as high leaves none of them lower
C11_StaggeredRamp ==
    /\ [](/\ get_drums_volume(speed) >= get_other_volume(speed)
          /\ get_other_volume(speed) >= get_vocals_volume(speed))
    /\ [][speed <= speed' =>
             /\ get_drums_volume(speed) <= get_drums_volume(speed')
             /\ get_other_volume(speed) <= get_other_volume(speed')
             /\ get_vocals_volume(speed) <= get_vocals_volume(speed')]_vars

\* the handler holds a speed at which the drums are at full volume, the other
\* stem is part-way up its ramp and the vocals are still silent
C11_Witness ==
    /\ get_drums_volume(speed) = VolUnits
    /\ get_other_volume(speed) > 0 /\ get_other_volume(speed) < VolUnits
    /\ get_vocals_volume(speed) = 0
    /\ rpm > 0

\* C12: the gear after a tick is decided by the gear before it and the speed
\* after the integration of that tick alone: up by one when the gear is below
\* the top gear, the raw RPM at that gear's factor exceeds the gear's upshift
\* threshold and the speed exceeds the gear's minimum upshift speed; otherwise
\* down by one when the gear is above 1, the raw RPM is below the gear's
\* downshift threshold and the speed is at least the minimum operating speed
\* of the gear below; otherwise unchanged.  The flags do not enter the rule.
C12_ShiftRule ==
    [][TickStep =>
         LET speed_mph == get_speed_mph(velocity')
             raw_rpm == get_raw_rpm_for_logic(current_gear, speed_mph)
             up == /\ current_gear < GEAR_MAX
                   /\ raw_rpm > UPSHIFT_RPM_THRESHOLDS[current_gear]
                   /\ speed_mph > MIN_SPEED_FOR_UPSHIFT_FROM_GEAR[current_gear]
             down == /\ current_gear > 1
                     /\ raw_rpm < DOWNSHIFT_RPM_THRESHOLDS[current_gear]
                     /\ speed_mph >= MIN_SPEED_FOR_GEAR_OPERATION[current_gear - 1]
         IN  current_gear' = IF up THEN current_gear + 1
                             ELSE IF down THEN current_gear - 1
                             ELSE current_gear]_vars

\* a tick with the brake held and no throttle shifted down
C12_Witness ==
    ticks > 0 /\ last_shift = -1 /\ is_braking /\ ~is_accelerating

\* the speed the frame reported to the handler is below the idle speed
AtRest == speed < IDLE_SPEED_MPH

\* C13: once the vehicle is at rest and the throttle stays released, the gear
\* eventually is 1
C13_ReturnsToFirstGear ==
    (AtRest /\ ~is_accelerating) ~> (current_gear = 1)

\* a volume clamped to [0, 1]
Clamp01(x) == Max(Min(x, VolUnits), 0)

\* C14: the volumes of the speed and rpm the handler holds are
\* v0 = min(rpm / RPM_MAX + 0.5, 1) and, with s = speed / SPEED_MAX,
\* v1 = clamp01(7 s - 1), v2 = clamp01(7 s - 2.5), v3 = clamp01(7 s - 4),
\* where SPEED_MAX and RPM_MAX are MAX_SPEED_OUTPUT and MAX_RPM_OUTPUT
C14_MapperFormula ==
    LET s == (speed * VolUnits) \div MAX_SPEED_OUTPUT
    IN  get_volumes(speed, rpm) =
            << Min(rpm \div (MAX_RPM_OUTPUT \div VolUnits) + VolUnits \div 2, VolUnits),
               Clamp01(s * 7 - VolUnits),
               Clamp01(s * 7 - (25 * VolUnits) \div 10),
               Clamp01(s * 7 - 4 * VolUnits) >>

\* C15: in a tick with the throttle and the brake both held, the acceleration
\* of the gear is first added to the velocity along the heading, the brake
\* then takes its deceleration off along the direction of the velocity that
\* resulted (leaving zero where it would overshoot), and no friction is
\* applied: the velocity after the tick is that value, capped at top speed
C15_ThrottleAndBrake ==
    [][(TickStep /\ is_accelerating /\ is_braking) =>
         LET rate == (VEHICLE_ACCELERATION_RATE
                        * ACCELERATION_FACTOR_PER_GEAR[current_gear]) \div FactorUnits
             pushed == Vec(velocity.x + TruncDiv(Cos(angle') * rate, TrigUnits),
                           velocity.y + TruncDiv(Sin(angle') * rate, TrigUnits))
             braked == IF \/ NormSq(pushed) <= BRAKE_STOP_SPEED * BRAKE_STOP_SPEED
                          \/ NormSq(pushed) < VEHICLE_BRAKING_DECELERATION
                                                * VEHICLE_BRAKING_DECELERATION
                       THEN ZeroVec
                       ELSE VecSub(pushed, ScaleTo(pushed, VEHICLE_BRAKING_DECELERATION))
         IN  velocity' = IF LengthGT(braked, VEHICLE_MAX_SPEED_PIXELS)
                         THEN ScaleTo(braked, VEHICLE_MAX_SPEED_PIXELS)
                         ELSE braked]_vars

\* two ticks with both keys held in gear 2, from 2898 units: each tick adds
\* 84 and takes off 100, and friction would have taken a further 8
C15_Witness ==
    /\ ticks = 2 /\ is_accelerating /\ is_braking
    /\ current_gear = 2
    /\ velocity = Vec(0, -2866)

\* C16: a tick with the brake held never leaves the vehicle faster than it
\* was, in any gear, whether or not the throttle is held as well
C16_BrakeNeverGains ==
    [][(TickStep /\ is_braking) => NormSq(velocity') <= NormSq(velocity)]_vars

\* C17: with the brake held and the throttle released, every frame of a
\* moving vehicle leaves it strictly slower and turns neither component of
\* the velocity around, the velocity becomes exactly zero after finitely many
\* frames, and a vehicle at rest with the throttle released stays at rest
C17_BrakingToStop ==
    /\ [][(is_braking /\ ~is_accelerating /\ velocity # ZeroVec) =>
             /\ NormSq(velocity') < NormSq(velocity)
             /\ Sgn(velocity'.x) \in {0, Sgn(velocity.x)}
             /\ Sgn(velocity'.y) \in {0, Sgn(velocity.y)}]_vars
    /\ [][(~is_accelerating /\ velocity = ZeroVec) => velocity' = ZeroVec]_vars
    /\ (is_braking /\ ~is_accelerating) ~> (velocity = ZeroVec)

\* the brake has brought a vehicle in top gear to rest, away from where the
\* long drives start
C17_Witness ==
    /\ is_braking /\ ~is_accelerating
    /\ velocity = ZeroVec
    /\ current_gear = GEAR_MAX
    /\ position.x = SCREEN_WIDTH \div 2
    /\ position.y # SCREEN_HEIGHT \div 2

\* C18: a tick that shifts up is never followed by a next tick that shifts
\* down, nor a tick that shifts down by a next tick that shifts up, whatever
\* the keys do in between
C18_NoGearHunting ==
    [][TickStep => /\ ~(last_shift = 1 /\ last_shift' = -1)
                   /\ ~(last_shift = -1 /\ last_shift' = 1)]_vars

\* full throttle from 5778 units in gear 1: the first tick reaches 5880 and
\* shifts up, the second adds the 84 of gear 2 and keeps the gear
C18_Witness ==
    /\ ticks = 2
    /\ current_gear = 2 /\ last_shift = 0
    /\ velocity = Vec(0, -5964)

\* the constructed vehicle at top speed along its heading
TopSpeedVelocity == Along(Constructed.angle, VEHICLE_MAX_SPEED_PIXELS)

\* C19: with the throttle held and the brake released from the constructed
\* state on, the gear never steps down and steps up one gear at a time, and
\* from some frame on the gear is the top gear and the velocity is the top
\* speed along the heading, for good
C19_FullThrottle ==
    /\ [][(is_accelerating /\ ~is_braking) =>
             current_gear' \in {current_gear, current_gear + 1}]_vars
    /\ (is_accelerating /\ ~is_braking) ~>
          [](current_gear = GEAR_MAX /\ velocity = TopSpeedVelocity)

\* at full throttle, in top gear at top speed
C19_Witness ==
    /\ is_accelerating /\ ~is_braking
    /\ current_gear = GEAR_MAX
    /\ NormSq(velocity) = VEHICLE_MAX_SPEED_PIXELS * VEHICLE_MAX_SPEED_PIXELS

\* C20: the raw RPM returned for a gear and a speed from 0 to SPEED_MAX is the
\* idle RPM below 0.5 mph and otherwise
\* IDLE_RPM + clamp01(speed * factor[gear] / SPEED_MAX) * (RPM_MAX - IDLE_RPM)
C20_RawRpmClamp01 ==
    raw_rpm_for_shifting # 0 =>
        raw_rpm_for_shifting =
            IF speed_mph_param < IDLE_SPEED_MPH THEN IDLE_RPM_OUTPUT
            ELSE IDLE_RPM_OUTPUT
                   + Min(speed_mph_param * GEAR_SPEED_RPM_FACTORS[current_gear],
                         MAX_SPEED_OUTPUT * FactorUnits) * RpmPerSpeedFactor

\* C20, amended: the raw RPM returned is the idle RPM below 0.5 mph and
\* otherwise IDLE_RPM + speed * factor[gear] / SPEED_MAX * (RPM_MAX - IDLE_RPM),
\* limited to RPM_MAX + 500: the product is not clamped to 1
C20_RawRpmOverRev ==
    raw_rpm_for_shifting # 0 =>
        raw_rpm_for_shifting =
            IF speed_mph_param < IDLE_SPEED_MPH THEN IDLE_RPM_OUTPUT
            ELSE Min(IDLE_RPM_OUTPUT
                       + speed_mph_param * GEAR_SPEED_RPM_FACTORS[current_gear]
                           * RpmPerSpeedFactor,
                     MAX_RPM_OUTPUT + OVER_REV_RPM)

\* a call in gear 1 returned an RPM above RPM_MAX
C20_Witness ==
    /\ current_gear = 1
    /\ raw_rpm_for_shifting > MAX_RPM_OUTPUT
    /\ speed_mph_param <= MAX_SPEED_OUTPUT

\* C21: in hardware mode a refresh leaves the stored RPM as it was when its
\* RPM query met no connection or a null response, and the stored speed as it
\* was when its speed query did; both stay numbers; and the simulate flag
\* never changes after construction
C21_KeepsLastKnown ==
    /\ [][~simulate =>
             /\ responses'.rpm.status # "value" => rpm' = rpm
             /\ responses'.speed.status # "value" => speed' = speed
             /\ rpm' \in Nat /\ speed' \in Nat]_vars
    /\ [][simulate' = simulate]_vars

\* in hardware mode the handler holds a speed and an RPM above 0 after a
\* refresh that met a null speed response and no connection for the RPM
C21_Witness ==
    /\ ~simulate
    /\ speed > 0 /\ rpm > 0
    /\ responses.speed.status = "null"
    /\ responses.rpm.status = "not connected"
====
